---- MODULE Spec2Model ----
(***************************************************************************)
(* Account ledger of the banking backend: the account router's            *)
(* fundAccount, getTransactions and getAccounts handlers over the shared  *)
(* accounts table and transaction journal.  Every storage operation of a  *)
(* handler (each awaited db call) is one atomic step; handlers of         *)
(* concurrent requests interleave between their storage operations.       *)
(* The auth router's signup, login and logout handlers over the users and *)
(* sessions tables, and the session script's expiry commands and          *)
(* check-status, follow the same rule.                                    *)
(*                                                                         *)
(* Money is counted in thousandths of a currency unit (10.50 is 10500),   *)
(* strings are sequences of character codes: 0..9 are the decimal digits, *)
(* SPACE is a whitespace character, DASH is "-", LETTER any other one.    *)
(***************************************************************************)
EXTENDS Integers, Sequences, FiniteSets, TLC

\* ---------------------------------------------------------------- bounds
\* number of fundAccount requests of a behaviour
NumCalls == 2
\* largest value of the journal's createdAt clock
MaxClock == 1

\* number of signup / login / logout calls of a behaviour
NumAuth == 2
\* number of times the wall clock moves
MaxAdvances == 3

\* longest digit string given to the card number validator, less one
MaxCardLen == 20
\* createAccount calls
NumCreates == 2
\* account numbers the generator can return
MaxAccountNumber == 4

\* ------------------------------------------------------------- characters
SPACE == 10
DASH == 11
LETTER == 12

Calls == 1 .. NumCalls
\* the clients that read while requests are funding
Readers == {1}
Users == {1, 2}
AuthCalls == 1 .. NumAuth
\* the people who can sign up: the users and one who has no user row yet
People == Users \cup {3}
Creators == 1 .. NumCreates
AccountNumberValues == 1 .. MaxAccountNumber
AccountTypes == {"checking", "savings"}

\* ------------------------------------------------------ format validators
IsDigit(c) == c \in 0 .. 9

AllDigits(s) == \A i \in 1 .. Len(s) : IsDigit(s[i])

RECURSIVE LuhnLoop(_, _, _, _)
\* the for loop of validateLuhn: i runs from the last character down
LuhnLoop(cardNumber, i, sum, isEven) ==
  IF i < 1 THEN sum
  ELSE LET digit == cardNumber[i]
           doubled == IF digit * 2 > 9 THEN digit * 2 - 9 ELSE digit * 2
           d == IF isEven THEN doubled ELSE digit
       IN  LuhnLoop(cardNumber, i - 1, sum + d, ~isEven)

validateLuhn(cardNumber) ==
  IF ~(Len(cardNumber) >= 1 /\ AllDigits(cardNumber)) THEN FALSE
  ELSE IF Len(cardNumber) < 13 \/ Len(cardNumber) > 19 THEN FALSE
  ELSE LuhnLoop(cardNumber, Len(cardNumber), 0, FALSE) % 10 = 0

\* cardNumber.replace(/\s|-/g, "")
Cleaned(cardNumber) == SelectSeq(cardNumber, LAMBDA c : c # SPACE /\ c # DASH)

\* the validator without the removal of spaces and dashes
isValidCardNumberUncleaned(cardNumber) ==
  IF Len(cardNumber) = 0 THEN FALSE
  ELSE IF ~(Len(cardNumber) >= 13 /\ Len(cardNumber) <= 19 /\ AllDigits(cardNumber))
       THEN FALSE
       ELSE validateLuhn(cardNumber)

\* isValidCardNumber(cardNumber)
isValidCardNumber(cardNumber) ==
  IF Len(cardNumber) = 0 THEN FALSE
  ELSE LET cleaned == Cleaned(cardNumber)
       IN  IF ~(Len(cleaned) >= 13 /\ Len(cleaned) <= 19 /\ AllDigits(cleaned))
           THEN FALSE
           ELSE validateLuhn(cleaned)

\* ------------------------------------------------- fundAccount input schema
\* amount: z.number().positive()
AmountSchemaOk(amount) == amount > 0

\* the routing number required of every funding source
RoutingRefineEveryType(source) ==
  /\ source.routingNumber.present
  /\ Len(source.routingNumber.value) = 9
  /\ AllDigits(source.routingNumber.value)

\* the refine of fundingSource: a bank transfer needs a 9 digit routing number
RoutingRefineOk(source) ==
  source.type # "bank"
    \/ (source.routingNumber.present
          /\ Len(source.routingNumber.value) = 9
          /\ AllDigits(source.routingNumber.value))

InputSchemaOk(input) ==
  AmountSchemaOk(input.amount) /\ RoutingRefineOk(input.fundingSource)

\* input.amount.toString(): integer part and the digits after the point
AmountToString(amount) == [int |-> amount \div 1000, frac |-> amount % 1000]

\* parseFloat of such a string
ParseFloat(s) == s.int * 1000 + s.frac

\* ------------------------------------------------------------- input sets
CardOk == <<4, 2, 4, 2, 4, 2, 4, 2, 4, 2, 4, 2, 4, 2, 4, 2>>
CardOkDashed == <<4, 2, 4, 2, DASH, 4, 2, 4, 2, SPACE, 4, 2, 4, 2, DASH, 4, 2, 4, 2>>
CardBadLuhn == <<4, 2, 4, 2, 4, 2, 4, 2, 4, 2, 4, 2, 4, 2, 4, 1>>
CardShort == <<1, 2, 3>>

Routing9 == <<1, 2, 3, 4, 5, 6, 7, 8, 9>>
Routing8 == <<1, 2, 3, 4, 5, 6, 7, 8>>
Routing9Letter == <<1, 2, 3, 4, 5, 6, 7, 8, LETTER>>

Absent == [present |-> FALSE, value |-> <<>>]
Given(s) == [present |-> TRUE, value |-> s]

AccountNumbers == {CardOk, CardOkDashed, CardBadLuhn, CardShort}

\* 4242...: the digits of the test card, repeated
LongCard == [i \in 1 .. MaxCardLen |-> IF i % 2 = 1 THEN 4 ELSE 2]

\* the strings given to the card number validator: the empty string, the
\* test cards, digit strings of every length up to MaxCardLen + 1 with every
\* last digit, and the test card with one character replaced
CardInputs ==
  {<<>>} \cup AccountNumbers
    \cup {SubSeq(LongCard, 1, n) \o <<d>> : n \in 0 .. MaxCardLen, d \in 0 .. 9}
    \cup {[CardOk EXCEPT ![i] = c] : i \in 1 .. Len(CardOk), c \in {0, 9, SPACE, DASH, LETTER}}
    \cup {<<DASH>> \o SubSeq(LongCard, 1, n) \o <<SPACE, d>> : n \in 11 .. MaxCardLen, d \in {0, 5}}
RoutingNumbers ==
  {Absent, Given(<<>>), Given(Routing9), Given(Routing8), Given(Routing9Letter)}

Sources ==
  [type : {"card", "bank"}, accountNumber : AccountNumbers,
   routingNumber : RoutingNumbers]

\* 0.005, 10.50, 10000.01, 0 and -10.50
Amounts == {5, 10500, 10000010, 0, -10500}

\* ids 1 and 2 are the accounts of Init, 3 is no account
AccountIdInputs == {1, 2, 3}

AllInputs ==
  [accountId : AccountIdInputs, userId : Users, amount : Amounts,
   fundingSource : Sources]

CardSource == [type |-> "card", accountNumber |-> CardOk, routingNumber |-> Absent]

\* the requests of the concurrent runs: the performance test's card funding
\* of 10.50, and a rejected amount, by either user on every account id
ConcurrentInputs ==
  {i \in AllInputs : i.fundingSource = CardSource /\ i.amount \in {10500, 0}}

\* the request of the funding script: a user funds the own account with 10.50
\* from the test card, with an empty routing number
ScriptInputs ==
  {i \in AllInputs :
     /\ i.fundingSource =
          [type |-> "card", accountNumber |-> CardOk, routingNumber |-> Given(<<>>)]
     /\ i.amount = 10500
     /\ i.accountId = i.userId}

\* ------------------------------------------------------------------ state
VARIABLES
  accounts,      \* accounts table: id -> row
  transactions,  \* journal: sequence of rows, the row at index i has id i
  clock,         \* the clock of createdAt / processedAt
  pc,            \* per request: position in the fundAccount handler
  req,           \* per request: input and ctx.user.id
  account,       \* per request: the account row read by the ownership check
  transaction,   \* per request: the row read back after the insert
  result,        \* per request: the returned {transaction, newBalance}
  err,           \* per request: the TRPCError code thrown, "" if none
  log,           \* per request: record of the storage operations it performed
  writes,        \* number of writes (inserts and updates) the store has executed
  rpc,           \* per reader: position in the getTransactions handler
  rreq,          \* per reader: input of getTransactions and ctx.user.id
  rerr,          \* per reader: the TRPCError code of getTransactions, "" if none
  page,          \* per reader: the items returned by getTransactions
  gpc,           \* per reader: position in the getAccounts handler
  owned,         \* per reader: the rows returned by getAccounts
  stamp,         \* per reader: the value of writes at each of the two queries
  rreads,        \* per reader: storage round trips of the getTransactions call
  collected,     \* per reader: the pages of the earlier calls of a paging run
  pstart,        \* per reader: the value of writes at the first page of the run
  sessions,      \* sessions table: set of rows
  registered,    \* users table: the ids of the users that have signed up
  now,           \* the wall clock, in milliseconds
  advances,      \* number of times the wall clock has moved
  apc,           \* per auth call: position in the signup / login / logout handler
  areq,          \* per auth call: the operation and its input
  aerr,          \* per auth call: the TRPCError code thrown, "" if none
  made,          \* per auth call: the session row it inserted
  status,        \* the last output of the session script's check-status
  card,          \* the string given to the card number validator
  cardResult,    \* what the validator returned for it: "" before the call
  cpc,           \* createAccount call -> its position in the handler
  creq,          \* createAccount call -> its caller and input
  cnum,          \* createAccount call -> the account number it generated last
  cerr,          \* createAccount call -> the error code it threw, "" if none
  cres,          \* createAccount call -> the account it returned
  cins           \* createAccount call -> the id of the row it inserted, 0 if none

storeVars == <<accounts, transactions, clock, writes>>
callVars == <<pc, req, account, transaction, result, err, log>>
readVars == <<rpc, rreq, rerr, page, gpc, owned, stamp>>
pagerVars == <<rreads, collected, pstart>>
authVars == <<sessions, registered, now, advances, apc, areq, aerr, made, status>>
cardVars == <<card, cardResult>>
createVars == <<cpc, creq, cnum, cerr, cres, cins>>
extraVars == <<cardVars, createVars>>
vars == <<storeVars, callVars, readVars, pagerVars, authVars, extraVars>>

NoAccount == [id |-> 0, userId |-> 0, accountNumber |-> 0, accountType |-> "", balance |-> 0, status |-> ""]
NoTransaction ==
  [id |-> 0, accountId |-> 0, type |-> "", amount |-> 0, description |-> "",
   status |-> "", createdAt |-> 0, processedAt |-> 0]
NoInput == [accountId |-> 0, userId |-> 0, amount |-> 0, fundingSource |-> CardSource]
NoResult == [transaction |-> NoTransaction, newBalance |-> 0]
\* reads / inserted / updated: the storage operations done so far;
\* before / after: the stored balance around the request's own update
\* insertedAt / updatedAt: the value of writes after the request's own write
NoLog ==
  [reads |-> 0, inserted |-> 0, updated |-> FALSE, before |-> 0, after |-> 0,
   insertedAt |-> 0, updatedAt |-> 0]
NoReadInput == [accountId |-> 0, userId |-> 0, limit |-> Absent, offset |-> Absent]
NoStamp == [getTransactions |-> -1, getAccounts |-> -1]
NoToken == <<>>
NoSession == [userId |-> 0, token |-> NoToken, expiresAt |-> 0]
NoAuthInput == [op |-> "", userId |-> 0, passwordOk |-> FALSE, token |-> NoToken]
NoStatus == [userId |-> 0, found |-> FALSE, isValid |-> FALSE, expiresAt |-> 0, at |-> 0]

NewAccount(id, userId, accountNumber, accountType) ==
  [id |-> id, userId |-> userId, accountNumber |-> accountNumber,
   accountType |-> accountType, balance |-> 0, status |-> "active"]

NoCreateInput == [userId |-> 0, accountType |-> ""]

\* times are in milliseconds: 7 * 24 * 60 * 60 * 1000
SevenDays == 604800000

\* jwt.sign({userId}, secret, {expiresIn: "7d"}): the payload is the user id
\* and the issue time in whole seconds
SignToken(userId, at) == <<userId, at \div 1000>>

\* the session row of a login or signup at time at
NewSession(userId, at) ==
  [userId |-> userId, token |-> SignToken(userId, at), expiresAt |-> at + SevenDays]

\* the accounts the two users have created
OpenAccounts ==
  (1 :> NewAccount(1, 1, 1, "checking")) @@ (2 :> NewAccount(2, 2, 2, "savings"))

\* the same accounts after the second one was closed
ClosedAccounts == [OpenAccounts EXCEPT ![2].status = "closed"]

\* both users are logged in since time 0
LoggedIn == {NewSession(u, 0) : u \in Users}

\* only the first user is logged in
OneLoggedIn == {NewSession(1, 0)}

InitBase(accts, sess) ==
  /\ accounts = accts
  /\ transactions = <<>>
  /\ clock = 0
  /\ pc = [p \in Calls |-> "idle"]
  /\ req = [p \in Calls |-> NoInput]
  /\ account = [p \in Calls |-> NoAccount]
  /\ transaction = [p \in Calls |-> NoTransaction]
  /\ result = [p \in Calls |-> NoResult]
  /\ err = [p \in Calls |-> ""]
  /\ log = [p \in Calls |-> NoLog]
  /\ writes = 0
  /\ rpc = [r \in Readers |-> "idle"]
  /\ rreq = [r \in Readers |-> NoReadInput]
  /\ rerr = [r \in Readers |-> ""]
  /\ page = [r \in Readers |-> <<>>]
  /\ gpc = [r \in Readers |-> "idle"]
  /\ owned = [r \in Readers |-> {}]
  /\ stamp = [r \in Readers |-> NoStamp]
  /\ rreads = [r \in Readers |-> 0]
  /\ collected = [r \in Readers |-> <<>>]
  /\ pstart = [r \in Readers |-> -1]
  /\ sessions = sess
  /\ registered = Users
  /\ now = 0
  /\ advances = 0
  /\ apc = [a \in AuthCalls |-> "idle"]
  /\ areq = [a \in AuthCalls |-> NoAuthInput]
  /\ aerr = [a \in AuthCalls |-> ""]
  /\ made = [a \in AuthCalls |-> NoSession]
  /\ status = NoStatus
  /\ cardResult = ""
  /\ cpc = [c \in Creators |-> "idle"]
  /\ creq = [c \in Creators |-> NoCreateInput]
  /\ cnum = [c \in Creators |-> 0]
  /\ cerr = [c \in Creators |-> ""]
  /\ cres = [c \in Creators |-> NoAccount]
  /\ cins = [c \in Creators |-> 0]

\* no string has been given to the card number validator
InitWith(accts, sess) == InitBase(accts, sess) /\ card = <<>>

Init == InitWith(OpenAccounts, LoggedIn)

\* ----------------------------------------------------------- derived state
RECURSIVE CompletedSum(_, _)
\* sum of amount over the completed rows of an account among the first n rows
CompletedSum(accountId, n) ==
  IF n = 0 THEN 0
  ELSE CompletedSum(accountId, n - 1)
         + (IF transactions[n].accountId = accountId /\ transactions[n].status = "completed"
            THEN transactions[n].amount ELSE 0)

RowsOf(accountId) ==
  {i \in 1 .. Len(transactions) : transactions[i].accountId = accountId}

InFlight(p) == pc[p] \in {"insert", "select", "update", "refetch"}

Started == {p \in Calls : pc[p] # "idle"}


\* ------------------------------------------------------------ fundAccount
\* the lookup by id alone
FindAnyAccount(accountId, userId) ==
  IF accountId \in DOMAIN accounts THEN accounts[accountId] ELSE NoAccount

\* select from accounts where id = accountId and userId = ctx.user.id
FindOwnedAccount(accountId, userId) ==
  IF accountId \in DOMAIN accounts /\ accounts[accountId].userId = userId
  THEN accounts[accountId] ELSE NoAccount

\* the ownership lookup done before the card check
FundCheckLookupFirst(input) ==
  LET found == FindOwnedAccount(input.accountId, input.userId)
  IN  IF ~InputSchemaOk(input)
      THEN [err |-> "BAD_REQUEST", account |-> NoAccount, reads |-> 0]
      ELSE IF found = NoAccount
      THEN [err |-> "NOT_FOUND", account |-> NoAccount, reads |-> 1]
      ELSE IF input.fundingSource.type = "card"
              /\ ~isValidCardNumber(input.fundingSource.accountNumber)
      THEN [err |-> "BAD_REQUEST", account |-> found, reads |-> 1]
      ELSE IF found.status # "active"
      THEN [err |-> "BAD_REQUEST", account |-> found, reads |-> 1]
      ELSE [err |-> "", account |-> found, reads |-> 1]

\* the checks of the handler up to its first write, in the order of the code:
\* the error thrown ("" when the request goes on to the insert), the account
\* row read and the number of storage reads done
FundCheck(input) ==
  LET found == FindOwnedAccount(input.accountId, input.userId)
  IN  IF ~InputSchemaOk(input)
      THEN [err |-> "BAD_REQUEST", account |-> NoAccount, reads |-> 0]
      ELSE IF input.fundingSource.type = "card"
              /\ ~isValidCardNumber(input.fundingSource.accountNumber)
      THEN [err |-> "BAD_REQUEST", account |-> NoAccount, reads |-> 0]
      ELSE IF found = NoAccount
      THEN [err |-> "NOT_FOUND", account |-> NoAccount, reads |-> 1]
      ELSE IF found.status # "active"
      THEN [err |-> "BAD_REQUEST", account |-> found, reads |-> 1]
      ELSE [err |-> "", account |-> found, reads |-> 1]

\* input parsing, card check, ownership lookup and status check
fundAccountStart(p, input) ==
  /\ pc[p] = "idle"
  /\ req' = [req EXCEPT ![p] = input]
  /\ err' = [err EXCEPT ![p] = FundCheck(input).err]
  /\ pc' = [pc EXCEPT ![p] = IF FundCheck(input).err = "" THEN "insert" ELSE "failed"]
  /\ account' = [account EXCEPT ![p] = FundCheck(input).account]
  /\ log' = [log EXCEPT ![p].reads = FundCheck(input).reads]
  /\ UNCHANGED <<storeVars, readVars, pagerVars, authVars, extraVars, transaction, result>>

\* the amount the handler works with
HandlerAmount(input) == ParseFloat(AmountToString(input.amount))

NewTransaction(input) ==
  [id |-> Len(transactions) + 1, accountId |-> input.accountId, type |-> "deposit",
   amount |-> HandlerAmount(input), description |-> input.fundingSource.type,
   status |-> "completed", createdAt |-> clock, processedAt |-> clock]

\* an insert that overwrites the newest row of the journal instead of
\* appending to it
fundAccountInsertReplacing(p) ==
  /\ pc[p] = "insert"
  /\ transactions' =
       IF Len(transactions) = 0 THEN <<NewTransaction(req[p])>>
       ELSE [transactions EXCEPT ![Len(transactions)] =
               [NewTransaction(req[p]) EXCEPT !.id = Len(transactions), !.amount = @ + 10]]
  /\ log' = [log EXCEPT ![p].inserted = Len(transactions'),
                        ![p].insertedAt = writes + 1]
  /\ pc' = [pc EXCEPT ![p] = "select"]
  /\ writes' = writes + 1
  /\ UNCHANGED <<accounts, clock, readVars, pagerVars, authVars, extraVars, req, account, transaction, result, err>>

\* db.insert(transactions)
fundAccountInsert(p) ==
  /\ pc[p] = "insert"
  /\ transactions' = Append(transactions, NewTransaction(req[p]))
  /\ log' = [log EXCEPT ![p].inserted = Len(transactions) + 1,
                        ![p].insertedAt = writes + 1]
  /\ pc' = [pc EXCEPT ![p] = "select"]
  /\ writes' = writes + 1
  /\ UNCHANGED <<accounts, clock, readVars, pagerVars, authVars, extraVars, req, account, transaction, result, err>>

\* the rows "order by createdAt desc limit 1" can return for an account:
\* any row of the account with the greatest createdAt
LatestTransactions(accountId) ==
  {transactions[i] : i \in
     {j \in 1 .. Len(transactions) :
        /\ transactions[j].accountId = accountId
        /\ \A k \in 1 .. Len(transactions) :
             transactions[k].accountId = accountId
               => transactions[k].createdAt <= transactions[j].createdAt}}

\* the read-back of the most recent transaction of the account
fundAccountSelect(p) ==
  /\ pc[p] = "select"
  /\ \E t \in LatestTransactions(req[p].accountId) :
       transaction' = [transaction EXCEPT ![p] = t]
  /\ log' = [log EXCEPT ![p].reads = @ + 1]
  /\ pc' = [pc EXCEPT ![p] = "update"]
  /\ UNCHANGED <<storeVars, readVars, pagerVars, authVars, extraVars, req, account, result, err>>

\* an update that credits the amount twice
UpdatedBalanceTwice(acct, amount) == acct.balance + amount + amount

\* the value set by the update: account.balance + amount
UpdatedBalance(acct, amount) == acct.balance + amount

\* the update without its where clause: every account gets the new balance
fundAccountUpdateEveryAccount(p) ==
  /\ pc[p] = "update"
  /\ accounts' = [a \in DOMAIN accounts |->
       [accounts[a] EXCEPT !.balance = UpdatedBalance(account[p], HandlerAmount(req[p]))]]
  /\ log' = [log EXCEPT ![p].updated = TRUE,
                        ![p].before = accounts[req[p].accountId].balance,
                        ![p].after = UpdatedBalance(account[p], HandlerAmount(req[p])),
                        ![p].updatedAt = writes + 1]
  /\ writes' = writes + 1
  /\ pc' = [pc EXCEPT ![p] = "refetch"]
  /\ UNCHANGED <<transactions, clock, readVars, pagerVars, authVars, extraVars, req, account, transaction, result, err>>

\* the update as a compare-and-set without retry: the request fails when the
\* stored balance is no longer the balance it has read
fundAccountUpdateOrConflict(p) ==
  /\ pc[p] = "update"
  /\ IF accounts[req[p].accountId].balance = account[p].balance
     THEN /\ accounts' = [accounts EXCEPT ![req[p].accountId].balance =
               UpdatedBalance(account[p], HandlerAmount(req[p]))]
          /\ log' = [log EXCEPT ![p].updated = TRUE,
                                ![p].before = accounts[req[p].accountId].balance,
                                ![p].after = UpdatedBalance(account[p], HandlerAmount(req[p])),
                                ![p].updatedAt = writes + 1]
          /\ writes' = writes + 1
          /\ pc' = [pc EXCEPT ![p] = "refetch"]
          /\ UNCHANGED err
     ELSE /\ pc' = [pc EXCEPT ![p] = "failed"]
          /\ err' = [err EXCEPT ![p] = "INTERNAL_SERVER_ERROR"]
          /\ UNCHANGED <<accounts, log, writes>>
  /\ UNCHANGED <<transactions, clock, readVars, pagerVars, authVars, extraVars, req, account, transaction, result>>

\* db.update(accounts).set({balance}).where(id = accountId)
fundAccountUpdate(p) ==
  /\ pc[p] = "update"
  /\ accounts' = [a \in DOMAIN accounts |->
       IF a = req[p].accountId
       THEN [accounts[a] EXCEPT !.balance = UpdatedBalance(account[p], HandlerAmount(req[p]))]
       ELSE accounts[a]]
  /\ log' = [log EXCEPT ![p].updated = TRUE,
                        ![p].before = accounts[req[p].accountId].balance,
                        ![p].after = UpdatedBalance(account[p], HandlerAmount(req[p])),
                        ![p].updatedAt = writes + 1]
  /\ writes' = writes + 1
  /\ pc' = [pc EXCEPT ![p] = "refetch"]
  /\ UNCHANGED <<transactions, clock, readVars, pagerVars, authVars, extraVars, req, account, transaction, result, err>>

\* updatedAccount?.balance ?? account.balance + amount
ReturnedBalance(p) ==
  IF req[p].accountId \in DOMAIN accounts THEN accounts[req[p].accountId].balance
  ELSE UpdatedBalance(account[p], HandlerAmount(req[p]))

\* the re-fetch of the account and the return
fundAccountReturn(p) ==
  /\ pc[p] = "refetch"
  /\ result' = [result EXCEPT ![p] =
       [transaction |-> transaction[p], newBalance |-> ReturnedBalance(p)]]
  /\ log' = [log EXCEPT ![p].reads = @ + 1]
  /\ pc' = [pc EXCEPT ![p] = "done"]
  /\ UNCHANGED <<storeVars, readVars, pagerVars, authVars, extraVars, req, account, transaction, err>>

\* time passes between two storage operations
Tick ==
  /\ clock < MaxClock
  /\ clock' = clock + 1
  /\ UNCHANGED <<accounts, transactions, writes, callVars, readVars, pagerVars, authVars, extraVars>>

FundSteps(p) ==
  \/ fundAccountInsert(p)
  \/ fundAccountSelect(p)
  \/ fundAccountUpdate(p)
  \/ fundAccountReturn(p)

\* concurrent requests
Next ==
  \/ \E p \in Calls, input \in ConcurrentInputs : fundAccountStart(p, input)
  \/ \E p \in Calls : FundSteps(p)
  \/ Tick

Spec == Init /\ [][Next]_vars

\* every awaited storage call of a request resolves: a request that can take
\* its next step takes it
Fairness == \A p \in Calls : WF_vars(FundSteps(p))

\* the requests of the performance test: each user funds the own account
\* with 10.50 from the test card
LiveInputs == {i \in ConcurrentInputs : i.amount = 10500 /\ i.accountId = i.userId}

\* the concurrent requests of the performance test, all within one tick of
\* the journal clock (createdAt plays no part in the progress of a request)
LiveNext ==
  \/ \E p \in Calls, input \in LiveInputs : fundAccountStart(p, input)
  \/ \E p \in Calls : FundSteps(p)

SpecLive == Init /\ [][LiveNext]_vars /\ Fairness

\* requests of the first user on the own account with different amounts:
\* 0.005 and 10.50 from the test card
MixedInputs ==
  {i \in AllInputs :
     /\ i.fundingSource = CardSource
     /\ i.amount \in {5, 10500}
     /\ i.accountId = 1 /\ i.userId = 1}

\* concurrent requests with different amounts on one account
MixedNext ==
  \/ \E p \in Calls, input \in MixedInputs : fundAccountStart(p, input)
  \/ \E p \in Calls : FundSteps(p)

SpecMixed == Init /\ [][MixedNext]_vars

\* a storage operation of the handler fails: the awaited call rejects and the
\* request ends with an internal error
storageFailure(p) ==
  /\ InFlight(p)
  /\ pc' = [pc EXCEPT ![p] = "failed"]
  /\ err' = [err EXCEPT ![p] = "INTERNAL_SERVER_ERROR"]
  /\ UNCHANGED <<storeVars, readVars, pagerVars, authVars, extraVars, req, account, transaction, result, log>>

\* concurrent requests whose storage operations can fail
FailNext ==
  \/ \E p \in Calls, input \in ConcurrentInputs : fundAccountStart(p, input)
  \/ \E p \in Calls : FundSteps(p)
  \/ \E p \in Calls : storageFailure(p)
  \/ Tick

SpecFail == Init /\ [][FailNext]_vars

\* the inputs of a request in the sequential runs: the requests of the
\* funding script, followed by one request with any input
InputsOf(p) == IF p = NumCalls THEN AllInputs ELSE ScriptInputs

\* requests one after the other, as the loop of the funding script issues
\* them: a request starts when the requests before it have returned
SeqNext ==
  \/ \E p \in Calls :
       /\ pc[p] = "idle"
       /\ \A q \in 1 .. p - 1 : pc[q] \in {"done", "failed"}
       /\ \E input \in InputsOf(p) : fundAccountStart(p, input)
  \/ \E p \in Calls : FundSteps(p)
  \/ Tick

SpecSeq == Init /\ [][SeqNext]_vars

\* the sequential requests when the second account is closed
SpecClosed == InitWith(ClosedAccounts, LoggedIn) /\ [][SeqNext]_vars

\* concurrent requests on different accounts: a request starts when no
\* request for the same accountId is between its lookup and its return
DisjointNext ==
  \/ \E p \in Calls :
       /\ pc[p] = "idle"
       /\ \E input \in ConcurrentInputs :
            /\ \A q \in Calls : InFlight(q) => req[q].accountId # input.accountId
            /\ fundAccountStart(p, input)
  \/ \E p \in Calls : FundSteps(p)
  \/ Tick

SpecDisjoint == Init /\ [][DisjointNext]_vars

\* the account store closes an active account: the status of an account is
\* active or closed, and it is changed outside the ledger
closeAccount(a) ==
  /\ accounts[a].status = "active"
  /\ accounts' = [accounts EXCEPT ![a].status = "closed"]
  /\ UNCHANGED <<transactions, clock, writes, callVars, readVars, pagerVars, authVars, extraVars>>

\* concurrent requests of the owners while accounts are being closed
ClosingNext ==
  \/ \E p \in Calls, input \in LiveInputs : fundAccountStart(p, input)
  \/ \E p \in Calls : FundSteps(p)
  \/ \E a \in DOMAIN accounts : closeAccount(a)

SpecClosing == Init /\ [][ClosingNext]_vars

\* ------------------------------------------------------------ read path
Limits == {Absent, Given(1)}
Offsets == {Absent, Given(1)}

ReadInputs ==
  [accountId : AccountIdInputs, userId : Users, limit : Limits, offset : Offsets]

\* the number n + 1/2; Given(n) is the whole number n
Half(n) == [present |-> TRUE, value |-> n, half |-> TRUE]

IsWhole(x) == "half" \notin DOMAIN x

\* x >= k and x <= k for a whole k
AtLeast(x, k) == x.value >= k
AtMost(x, k) == IF IsWhole(x) THEN x.value <= k ELSE x.value < k

\* limit: z.number().min(1).max(100), offset: z.number().min(0), both optional
ReadSchemaOk(input) ==
  /\ input.limit.present => (AtLeast(input.limit, 1) /\ AtMost(input.limit, 100))
  /\ input.offset.present => AtLeast(input.offset, 0)

\* the numbers the query receives are whole
WholeInput(input) == IsWhole(input.limit) /\ IsWhole(input.offset)

\* the error of the schema check and the ownership lookup, "" if none
ReadCheck(input) ==
  IF ~ReadSchemaOk(input) THEN "BAD_REQUEST"
  ELSE IF FindOwnedAccount(input.accountId, input.userId) = NoAccount
       THEN "NOT_FOUND" ELSE ""

\* input.limit ?? 50
LimitOf(input) == IF input.limit.present THEN input.limit.value ELSE 50

\* input.offset ?? 0
OffsetOf(input) == IF input.offset.present THEN input.offset.value ELSE 0

\* schema check and ownership lookup of getTransactions
getTransactionsStart(r, input) ==
  /\ rpc[r] = "idle"
  /\ rreq' = [rreq EXCEPT ![r] = input]
  /\ rreads' = [rreads EXCEPT ![r] = IF ReadSchemaOk(input) THEN 1 ELSE 0]
  /\ UNCHANGED <<collected, pstart>>
  /\ rerr' = [rerr EXCEPT ![r] = ReadCheck(input)]
  /\ rpc' = [rpc EXCEPT ![r] = IF ReadCheck(input) = "" THEN "query" ELSE "failed"]
  /\ UNCHANGED <<storeVars, callVars, authVars, extraVars, page, gpc, owned, stamp>>

\* the orders "order by createdAt desc" can produce for the rows of an
\* account: every arrangement in which createdAt never increases
DescOrders(accountId) ==
  LET rows == RowsOf(accountId)
      n == Cardinality(rows)
  IN  {o \in [1 .. n -> rows] :
         /\ \A i, j \in 1 .. n : i # j => o[i] # o[j]
         /\ \A i \in 1 .. n : \A j \in 1 .. n :
              i < j => transactions[o[i]].createdAt >= transactions[o[j]].createdAt}

\* the join on accounts.id = transactions.id
JoinedItemWrongKey(i) ==
  [id |-> transactions[i].id, accountId |-> transactions[i].accountId,
   type |-> transactions[i].type, amount |-> transactions[i].amount,
   description |-> transactions[i].description, status |-> transactions[i].status,
   createdAt |-> transactions[i].createdAt, processedAt |-> transactions[i].processedAt,
   accountType |-> FindAnyAccount(transactions[i].id, 0).accountType]

\* one row of the join: the selected columns of the transaction and the
\* account type of its account
JoinedItem(i) ==
  [id |-> transactions[i].id, accountId |-> transactions[i].accountId,
   type |-> transactions[i].type, amount |-> transactions[i].amount,
   description |-> transactions[i].description, status |-> transactions[i].status,
   createdAt |-> transactions[i].createdAt, processedAt |-> transactions[i].processedAt,
   accountType |-> accounts[transactions[i].accountId].accountType]

\* limit / offset applied to an order
PageOf(order, limit, offset) ==
  LET last == IF offset + limit < Len(order) THEN offset + limit ELSE Len(order)
  IN  [k \in 1 .. (IF last > offset THEN last - offset ELSE 0) |->
         JoinedItem(order[offset + k])]

\* the page query with one more account lookup for every row of the page
getTransactionsQueryPerRow(r) ==
  /\ rpc[r] = "query"
  /\ WholeInput(rreq[r])
  /\ \E o \in DescOrders(rreq[r].accountId) :
       /\ page' = [page EXCEPT ![r] = PageOf(o, LimitOf(rreq[r]), OffsetOf(rreq[r]))]
       /\ rreads' = [rreads EXCEPT ![r] =
            @ + 1 + Len(PageOf(o, LimitOf(rreq[r]), OffsetOf(rreq[r])))]
  /\ stamp' = [stamp EXCEPT ![r].getTransactions = writes]
  /\ pstart' = [pstart EXCEPT ![r] = IF @ = -1 THEN writes ELSE @]
  /\ rpc' = [rpc EXCEPT ![r] = "done"]
  /\ UNCHANGED collected
  /\ UNCHANGED <<storeVars, callVars, authVars, extraVars, rreq, rerr, gpc, owned>>

\* the joined page query of getTransactions
getTransactionsQuery(r) ==
  /\ rpc[r] = "query"
  /\ WholeInput(rreq[r])
  /\ \E o \in DescOrders(rreq[r].accountId) :
       page' = [page EXCEPT ![r] = PageOf(o, LimitOf(rreq[r]), OffsetOf(rreq[r]))]
  /\ stamp' = [stamp EXCEPT ![r].getTransactions = writes]
  /\ rreads' = [rreads EXCEPT ![r] = @ + 1]
  /\ pstart' = [pstart EXCEPT ![r] = IF @ = -1 THEN writes ELSE @]
  /\ rpc' = [rpc EXCEPT ![r] = "done"]
  /\ UNCHANGED collected
  /\ UNCHANGED <<storeVars, callVars, authVars, extraVars, rreq, rerr, gpc, owned>>

\* the page query when limit or offset is not a whole number: the statement
\* either fails in the store or runs with the numbers truncated
getTransactionsQueryFraction(r) ==
  /\ rpc[r] = "query"
  /\ ~WholeInput(rreq[r])
  /\ \/ /\ rpc' = [rpc EXCEPT ![r] = "failed"]
        /\ rerr' = [rerr EXCEPT ![r] = "INTERNAL_SERVER_ERROR"]
        /\ UNCHANGED page
     \/ /\ \E o \in DescOrders(rreq[r].accountId) :
             page' = [page EXCEPT ![r] = PageOf(o, LimitOf(rreq[r]), OffsetOf(rreq[r]))]
        /\ rpc' = [rpc EXCEPT ![r] = "done"]
        /\ UNCHANGED rerr
  /\ stamp' = [stamp EXCEPT ![r].getTransactions = writes]
  /\ rreads' = [rreads EXCEPT ![r] = @ + 1]
  /\ pstart' = [pstart EXCEPT ![r] = IF @ = -1 THEN writes ELSE @]
  /\ UNCHANGED collected
  /\ UNCHANGED <<storeVars, callVars, authVars, extraVars, rreq, gpc, owned>>

\* the input of the call for the page after the one just returned
NextPageInput(input) ==
  [input EXCEPT !.offset = Given(OffsetOf(input) + LimitOf(input))]

\* a client that pages through the history: after a full page it keeps the
\* page and calls getTransactions again with offset + limit
getTransactionsNext(r) ==
  /\ rpc[r] = "done"
  /\ WholeInput(rreq[r])
  /\ Len(page[r]) = LimitOf(rreq[r])
  /\ collected' = [collected EXCEPT ![r] = @ \o page[r]]
  /\ rreq' = [rreq EXCEPT ![r] = NextPageInput(@)]
  /\ rerr' = [rerr EXCEPT ![r] = ReadCheck(NextPageInput(rreq[r]))]
  /\ rpc' = [rpc EXCEPT ![r] =
       IF ReadCheck(NextPageInput(rreq[r])) = "" THEN "query" ELSE "failed"]
  /\ rreads' = [rreads EXCEPT ![r] = 1]
  /\ page' = [page EXCEPT ![r] = <<>>]
  /\ UNCHANGED <<storeVars, callVars, authVars, extraVars, gpc, owned, stamp, pstart>>

\* getAccounts: select from accounts where userId = ctx.user.id
getAccounts(r, userId) ==
  /\ gpc[r] = "idle"
  /\ owned' = [owned EXCEPT ![r] =
       {accounts[a] : a \in {b \in DOMAIN accounts : accounts[b].userId = userId}}]
  /\ stamp' = [stamp EXCEPT ![r].getAccounts = writes]
  /\ gpc' = [gpc EXCEPT ![r] = "done"]
  /\ UNCHANGED <<storeVars, callVars, authVars, extraVars, pagerVars, rpc, rreq, rerr, page>>

\* funding requests with readers alongside
ReadNext ==
  \/ \E p \in Calls, input \in ScriptInputs : fundAccountStart(p, input)
  \/ \E p \in Calls : FundSteps(p)
  \/ Tick
  \/ \E r \in Readers, input \in ReadInputs : getTransactionsStart(r, input)
  \/ \E r \in Readers : getTransactionsQuery(r)
  \/ \E r \in Readers, u \in Users : getAccounts(r, u)

SpecRead == Init /\ [][ReadNext]_vars

\* the limits and offsets of the paging runs: omitted, inside and outside
\* the schema's range, and not whole
PageLimits == {Absent, Given(0), Given(1), Given(2), Given(100), Given(101), Half(1)}
PageOffsets == {Absent, Given(-1), Given(1), Half(0)}

\* the calls of user 1 on every account id
PageInputs ==
  [accountId : AccountIdInputs, userId : {1}, limit : PageLimits, offset : PageOffsets]

\* the funding script fills the journal while a client pages through it
PageNext ==
  \/ \E p \in Calls :
       /\ pc[p] = "idle"
       /\ \A q \in 1 .. p - 1 : pc[q] \in {"done", "failed"}
       /\ \E input \in ScriptInputs : fundAccountStart(p, input)
  \/ \E p \in Calls : FundSteps(p)
  \/ Tick
  \/ \E r \in Readers :
       /\ rpc[r] = "idle"
       /\ \E input \in PageInputs : getTransactionsStart(r, input)
  \/ \E r \in Readers : getTransactionsQuery(r)
  \/ \E r \in Readers : getTransactionsQueryFraction(r)
  \/ \E r \in Readers : getTransactionsNext(r)

SpecPage == Init /\ [][PageNext]_vars

\* ------------------------------------------------------------- sessions
ledgerVars == <<storeVars, callVars, readVars, pagerVars>>

SessionsOf(userId) == {x \in sessions : x.userId = userId}

\* the sessions table holds a row with this token
TokenTaken(token) == \E x \in sessions : x.token = token

\* login: the user lookup and the password comparison
login(a, userId, passwordOk) ==
  /\ apc[a] = "idle"
  /\ areq' = [areq EXCEPT ![a] =
       [op |-> "login", userId |-> userId, passwordOk |-> passwordOk, token |-> NoToken]]
  /\ aerr' = [aerr EXCEPT ![a] =
       IF userId \in registered /\ passwordOk THEN "" ELSE "UNAUTHORIZED"]
  /\ apc' = [apc EXCEPT ![a] =
       IF userId \in registered /\ passwordOk THEN "delete" ELSE "failed"]
  /\ UNCHANGED <<ledgerVars, extraVars, sessions, registered, now, advances, made, status>>

\* signup: the lookup of an existing user with the email
signup(a, userId) ==
  /\ apc[a] = "idle"
  /\ areq' = [areq EXCEPT ![a] =
       [op |-> "signup", userId |-> userId, passwordOk |-> TRUE, token |-> NoToken]]
  /\ aerr' = [aerr EXCEPT ![a] = IF userId \in registered THEN "CONFLICT" ELSE ""]
  /\ apc' = [apc EXCEPT ![a] = IF userId \in registered THEN "failed" ELSE "insertUser"]
  /\ UNCHANGED <<ledgerVars, extraVars, sessions, registered, now, advances, made, status>>

\* signup: db.insert(users); the insert of an email that a concurrent
\* signup has inserted in the meantime fails
signupInsertUser(a) ==
  /\ apc[a] = "insertUser"
  /\ IF areq[a].userId \in registered
     THEN /\ apc' = [apc EXCEPT ![a] = "failed"]
          /\ aerr' = [aerr EXCEPT ![a] = "INTERNAL_SERVER_ERROR"]
          /\ UNCHANGED registered
     ELSE /\ apc' = [apc EXCEPT ![a] = "fetchUser"]
          /\ registered' = registered \cup {areq[a].userId}
          /\ UNCHANGED aerr
  /\ UNCHANGED <<ledgerVars, extraVars, sessions, now, advances, areq, made, status>>

\* signup: the fetch of the created user
signupFetchUser(a) ==
  /\ apc[a] = "fetchUser"
  /\ apc' = [apc EXCEPT ![a] =
       IF areq[a].userId \in registered THEN "delete" ELSE "failed"]
  /\ aerr' = [aerr EXCEPT ![a] =
       IF areq[a].userId \in registered THEN "" ELSE "INTERNAL_SERVER_ERROR"]
  /\ UNCHANGED <<ledgerVars, extraVars, sessions, registered, now, advances, areq, made, status>>

\* signup / login: db.delete(sessions).where(userId = user.id)
authDeleteSessions(a) ==
  /\ apc[a] = "delete"
  /\ sessions' = sessions \ SessionsOf(areq[a].userId)
  /\ apc' = [apc EXCEPT ![a] = "insert"]
  /\ UNCHANGED <<ledgerVars, extraVars, registered, now, advances, areq, aerr, made, status>>

\* signup / login: jwt.sign, expiresAt = now + 7 days, db.insert(sessions)
authInsertSession(a) ==
  /\ apc[a] = "insert"
  /\ IF TokenTaken(SignToken(areq[a].userId, now))
     THEN /\ apc' = [apc EXCEPT ![a] = "failed"]
          /\ aerr' = [aerr EXCEPT ![a] = "INTERNAL_SERVER_ERROR"]
          /\ UNCHANGED <<sessions, made>>
     ELSE /\ sessions' = sessions \cup {NewSession(areq[a].userId, now)}
          /\ made' = [made EXCEPT ![a] = NewSession(areq[a].userId, now)]
          /\ apc' = [apc EXCEPT ![a] = "done"]
          /\ UNCHANGED aerr
  /\ UNCHANGED <<ledgerVars, extraVars, registered, now, advances, areq, status>>

\* a token that jwt.verify rejects
Garbage == <<0>>

\* jwt.verify succeeds: the token was signed for a user
Decodable(token) == Len(token) = 2

\* logout: the token of the session cookie, if any
logout(a, token) ==
  /\ apc[a] = "idle"
  /\ areq' = [areq EXCEPT ![a] =
       [op |-> "logout", userId |-> IF Decodable(token) THEN token[1] ELSE 0,
        passwordOk |-> FALSE, token |-> token]]
  /\ apc' = [apc EXCEPT ![a] = IF token = NoToken THEN "done" ELSE "revoke"]
  /\ UNCHANGED <<ledgerVars, extraVars, sessions, registered, now, advances, aerr, made, status>>

\* a logout that deletes the row of the presented token only
logoutDeleteTokenRow(a) ==
  /\ apc[a] = "revoke"
  /\ sessions' = {x \in sessions : x.token # areq[a].token}
  /\ apc' = [apc EXCEPT ![a] = "done"]
  /\ UNCHANGED <<ledgerVars, extraVars, registered, now, advances, areq, aerr, made, status>>

\* logout: delete the sessions of the token's user, or the row of the token
logoutDelete(a) ==
  /\ apc[a] = "revoke"
  /\ sessions' =
       IF Decodable(areq[a].token)
       THEN sessions \ SessionsOf(areq[a].token[1])
       ELSE {x \in sessions : x.token # areq[a].token}
  /\ apc' = [apc EXCEPT ![a] = "done"]
  /\ UNCHANGED <<ledgerVars, extraVars, registered, now, advances, areq, aerr, made, status>>

\* the steps of the wall clock: one second, and four minutes 59 seconds
TimeSteps == {1000, 299000}

Advance(d) ==
  /\ advances < MaxAdvances
  /\ now' = now + d
  /\ advances' = advances + 1
  /\ UNCHANGED <<ledgerVars, extraVars, sessions, registered, apc, areq, aerr, made, status>>

AuthSteps(a) ==
  \/ signupInsertUser(a)
  \/ signupFetchUser(a)
  \/ authDeleteSessions(a)
  \/ authInsertSession(a)
  \/ logoutDelete(a)

\* the tokens a client can present: none, one that does not verify, and the
\* tokens of the session rows
Presentable == {NoToken, Garbage} \cup {x.token : x \in sessions}

\* concurrent signup, login and logout calls
AuthNext ==
  \/ \E a \in AuthCalls :
       /\ apc[a] = "idle"
       /\ \E u \in People, ok \in BOOLEAN : login(a, u, ok)
  \/ \E a \in AuthCalls :
       /\ apc[a] = "idle"
       /\ \E u \in People : signup(a, u)
  \/ \E a \in AuthCalls :
       /\ apc[a] = "idle"
       /\ \E token \in Presentable : logout(a, token)
  \/ \E a \in AuthCalls : AuthSteps(a)
  \/ \E d \in TimeSteps : Advance(d)

SpecAuth == Init /\ [][AuthNext]_vars

\* the first user holds two sessions, as two logins whose delete and insert
\* interleaved one second apart leave them
TwoSessions == LoggedIn \cup {NewSession(1, -1000)}

\* the calls of the auth router when a user holds more than one session
SpecLogout == InitWith(OpenAccounts, TwoSessions) /\ [][AuthNext]_vars

\* the session script: the expiry its set-near-expiry, set-1min-expiry,
\* set-valid-session and set-expired commands give the session, from now
ExpirySettings == {240000, 60000, 600000, -60000}

\* the emails the script is run for
ScriptUsers == Users

\* a set-... command: the first session row of the user gets the new expiry
setExpiry(userId, delta) ==
  /\ userId \in registered
  /\ \E x \in SessionsOf(userId) :
       sessions' = (sessions \ {x}) \cup {[x EXCEPT !.expiresAt = now + delta]}
  /\ UNCHANGED <<ledgerVars, extraVars, registered, now, advances, apc, areq, aerr, made, status>>

\* 5 * 60 * 1000
bufferMs == 300000

\* the difference taken the other way round: the time since the expiry
expiresInReversed(expiresAt, at) == at - expiresAt

\* expiresIn = expiresAt.getTime() - now.getTime()
expiresIn(expiresAt, at) == expiresAt - at

\* the comparison with the buffer where exactly five minutes still pass
isValidInclusive(expiresAt, at) == expiresAt - at >= bufferMs

\* isValid = expiresIn > bufferMs
isValid(expiresAt, at) == expiresIn(expiresAt, at) > bufferMs

\* check-status: the session row of the user, if any, against the clock
checkStatus(userId) ==
  /\ userId \in registered
  /\ IF SessionsOf(userId) = {}
     THEN status' = [NoStatus EXCEPT !.userId = userId, !.at = now]
     ELSE \E x \in SessionsOf(userId) :
            status' = [userId |-> userId, found |-> TRUE,
                       isValid |-> isValid(x.expiresAt, now),
                       expiresAt |-> x.expiresAt, at |-> now]
  /\ UNCHANGED <<ledgerVars, extraVars, sessions, registered, now, advances, apc, areq, aerr, made>>

\* the script's commands and check, and the clock
SessionNext ==
  \/ \E u \in ScriptUsers, delta \in ExpirySettings : setExpiry(u, delta)
  \/ \E u \in ScriptUsers : checkStatus(u)
  \/ \E d \in TimeSteps : Advance(d)

\* the script is run while one user is logged in and the other is not
SpecSession == InitWith(OpenAccounts, OneLoggedIn) /\ [][SessionNext]_vars

\* ------------------------------------------------------------ createAccount
CreateInputs == [userId : Users, accountType : AccountTypes]

\* the select by (userId, accountType) finds a row
ExistingAccount(input) ==
  \E a \in DOMAIN accounts :
    accounts[a].userId = input.userId /\ accounts[a].accountType = input.accountType

\* the select by (userId, accountType) and the CONFLICT error
createAccountStart(c, input) ==
  /\ cpc[c] = "idle"
  /\ creq' = [creq EXCEPT ![c] = input]
  /\ IF ExistingAccount(input)
     THEN cpc' = [cpc EXCEPT ![c] = "failed"] /\ cerr' = [cerr EXCEPT ![c] = "CONFLICT"]
     ELSE cpc' = [cpc EXCEPT ![c] = "number"] /\ UNCHANGED cerr
  /\ UNCHANGED <<ledgerVars, authVars, cardVars, cnum, cres, cins>>

\* one round of the loop: generateAccountNumber() and the select by the
\* generated number; the loop ends when no row has it
createAccountNumber(c) ==
  /\ cpc[c] = "number"
  /\ \E n \in AccountNumberValues :
       /\ cnum' = [cnum EXCEPT ![c] = n]
       /\ cpc' = [cpc EXCEPT ![c] =
            IF \E a \in DOMAIN accounts : accounts[a].accountNumber = n
            THEN "number" ELSE "insert"]
  /\ UNCHANGED <<ledgerVars, authVars, cardVars, creq, cerr, cres, cins>>

\* db.insert(accounts): the row gets the next id
createAccountInsert(c) ==
  /\ cpc[c] = "insert"
  /\ LET id == Cardinality(DOMAIN accounts) + 1
     IN  /\ accounts' = accounts @@
              (id :> NewAccount(id, creq[c].userId, cnum[c], creq[c].accountType))
         /\ cins' = [cins EXCEPT ![c] = id]
  /\ writes' = writes + 1
  /\ cpc' = [cpc EXCEPT ![c] = "fetch"]
  /\ UNCHANGED <<transactions, clock, callVars, readVars, pagerVars, authVars, cardVars,
                 creq, cnum, cerr, cres>>

\* the select of the created account by its number, and the return
createAccountReturn(c) ==
  /\ cpc[c] = "fetch"
  /\ LET found == {a \in DOMAIN accounts : accounts[a].accountNumber = cnum[c]}
     IN  IF found = {}
         THEN /\ cpc' = [cpc EXCEPT ![c] = "failed"]
              /\ cerr' = [cerr EXCEPT ![c] = "INTERNAL_SERVER_ERROR"]
              /\ UNCHANGED cres
         ELSE /\ \E a \in found : cres' = [cres EXCEPT ![c] = accounts[a]]
              /\ cpc' = [cpc EXCEPT ![c] = "done"]
              /\ UNCHANGED cerr
  /\ UNCHANGED <<ledgerVars, authVars, cardVars, creq, cnum, cins>>

CreateSteps(c) ==
  \/ createAccountNumber(c)
  \/ createAccountInsert(c)
  \/ createAccountReturn(c)

\* createAccount calls whose storage operations interleave
CreateNext ==
  \/ \E c \in Creators, input \in CreateInputs : createAccountStart(c, input)
  \/ \E c \in Creators : CreateSteps(c)

SpecCreate == Init /\ [][CreateNext]_vars

\* the calls of the first user in the runs of the whole account router
RouterFundInputs == {i \in ScriptInputs : i.userId = 1}
RouterReadInputs ==
  {i \in ReadInputs : i.userId = 1 /\ i.accountId = 1 /\ i.limit = Absent /\ i.offset = Absent}
RouterCreateInputs == {i \in CreateInputs : i.userId = 1}

\* the funding script's requests, one after the other, while a
\* getTransactions, a getAccounts and a createAccount call of the same user
\* run alongside
RouterNext ==
  \/ \E p \in Calls :
       /\ pc[p] = "idle"
       /\ \A q \in 1 .. p - 1 : pc[q] \in {"done", "failed"}
       /\ \E input \in RouterFundInputs : fundAccountStart(p, input)
  \/ \E p \in Calls : FundSteps(p)
  \/ \E r \in Readers, input \in RouterReadInputs : getTransactionsStart(r, input)
  \/ \E r \in Readers : getTransactionsQuery(r)
  \/ \E r \in Readers : getAccounts(r, 1)
  \/ \E input \in RouterCreateInputs : createAccountStart(1, input)
  \/ CreateSteps(1)

SpecRouter == Init /\ [][RouterNext]_vars

\* ---------------------------------------------------- card number validator
\* the call isValidCardNumber(card)
validateCard ==
  /\ cardResult = ""
  /\ cardResult' = IF isValidCardNumber(card) THEN "true" ELSE "false"
  /\ UNCHANGED <<ledgerVars, authVars, createVars, card>>

SpecCard ==
  /\ InitBase(OpenAccounts, LoggedIn) /\ card \in CardInputs
  /\ [][validateCard]_vars

\* ------------------------------------------------------------------ claims
\* C1: no lost updates.  When N >= 1 fundAccount calls with the same amount A
\* on the same account (balance 0, empty journal at the start) have all
\* completed, the stored balance is N*A and the journal holds N rows of the
\* account.
C1_NoLostUpdates ==
  \A a \in DOMAIN accounts, A \in Amounts :
    ( /\ Started # {}
      /\ \A p \in Started :
           pc[p] = "done" /\ req[p].accountId = a /\ req[p].amount = A )
      => /\ accounts[a].balance = Cardinality(Started) * A
         /\ Cardinality(RowsOf(a)) = Cardinality(Started)

\* C2: balance consistency.  Whenever no fundAccount call on an account is in
\* progress, its stored balance is the sum of amount over its completed
\* transactions.
C2_BalanceConsistency ==
  \A a \in DOMAIN accounts :
    (\A p \in Calls : ~(InFlight(p) /\ req[p].accountId = a))
      => accounts[a].balance = CompletedSum(a, Len(transactions))

\* C3: atomic visibility.  A reader that sees the journal (getTransactions)
\* and the balance (getAccounts) of an account in the same state of the store
\* sees a funding operation entirely or not at all: the row of a request is on
\* its page only if the balance it sees includes that request's update, and
\* the balance includes the update only if the row was in the journal.
C3_AtomicVisibility ==
  \A r \in Readers, p \in Calls :
    ( /\ rpc[r] = "done" /\ gpc[r] = "done"
      /\ stamp[r].getTransactions = stamp[r].getAccounts
      /\ log[p].inserted # 0
      /\ req[p].accountId = rreq[r].accountId
      /\ \E a \in owned[r] : a.id = req[p].accountId )
      => LET at == stamp[r].getAccounts
             rowOnPage == \E i \in 1 .. Len(page[r]) : page[r][i].id = log[p].inserted
             rowStored == log[p].insertedAt <= at
             incremented == log[p].updated /\ log[p].updatedAt <= at
         IN  (rowOnPage => incremented) /\ (incremented => rowStored)

\* a request that performed no write
NoEffect(p) == log[p].inserted = 0 /\ ~log[p].updated

\* C4: all-or-nothing.  A request that is no longer running has either
\* written both its journal row and its balance update or neither of them,
\* and a request reported as failed has written nothing.
C4_AllOrNothing ==
  \A p \in Calls :
    ~InFlight(p)
      => /\ (log[p].inserted # 0) <=> log[p].updated
         /\ pc[p] = "failed" => NoEffect(p)

\* C5: the newBalance returned by a successful request is the balance stored
\* by its own update, which is the balance stored before that update plus the
\* amount.
C5_ReturnedBalance ==
  \A p \in Calls :
    pc[p] = "done"
      => /\ result[p].newBalance = log[p].after
         /\ log[p].after = log[p].before + req[p].amount

\* C6: the transaction returned by a successful request is the journal row
\* that this request appended.
C6_ReturnedTransaction ==
  \A p \in Calls :
    pc[p] = "done"
      => /\ result[p].transaction.id = log[p].inserted
         /\ result[p].transaction.accountId = req[p].accountId
         /\ result[p].transaction.amount = req[p].amount
         /\ result[p].transaction.type = "deposit"
         /\ result[p].transaction.status = "completed"

\* the amount rules of the funding form: positive, at most 2 fractional
\* digits, at most 10,000
AmountCeiling == 10000000
AmountAllowed(amount) ==
  amount > 0 /\ amount % 10 = 0 /\ amount <= AmountCeiling

\* C7: a request whose amount is not positive, has more than 2 fractional
\* digits or exceeds 10,000 fails with BAD_REQUEST and writes nothing.
C7_AmountRules ==
  \A p \in Calls :
    (pc[p] # "idle" /\ ~AmountAllowed(req[p].amount))
      => pc[p] = "failed" /\ err[p] = "BAD_REQUEST" /\ NoEffect(p)

\* C8: a card request whose card number does not pass isValidCardNumber fails
\* with BAD_REQUEST before any storage operation: it reads no account,
\* appends no journal row and changes no balance.
C8_CardRejectedBeforeStorage ==
  \A p \in Calls :
    ( /\ pc[p] # "idle"
      /\ req[p].fundingSource.type = "card"
      /\ ~isValidCardNumber(req[p].fundingSource.accountNumber) )
      => /\ pc[p] = "failed" /\ err[p] = "BAD_REQUEST"
         /\ log[p].reads = 0 /\ NoEffect(p)
         /\ account[p] = NoAccount

\* a card request with a bad card number on an account the caller does not
\* own has been rejected
C8_Witness ==
  \E p \in Calls :
    /\ pc[p] = "failed"
    /\ req[p].fundingSource.type = "card"
    /\ req[p].fundingSource.accountNumber = CardBadLuhn
    /\ req[p].amount = 10500
    /\ req[p].accountId = 3

\* a routing number of exactly 9 decimal digits
NineDigits(routingNumber) ==
  /\ routingNumber.present
  /\ Len(routingNumber.value) = 9
  /\ \A i \in 1 .. 9 : routingNumber.value[i] \in 0 .. 9

\* C9: a bank request is rejected with BAD_REQUEST, without any effect, unless
\* its routing number is present and is exactly 9 digits; for a card request
\* the outcome of the checks is the same whatever the routing number is.
C9_RoutingNumber ==
  \A p \in Calls :
    pc[p] # "idle"
      => /\ ( req[p].fundingSource.type = "bank"
              /\ ~NineDigits(req[p].fundingSource.routingNumber) )
              => ( pc[p] = "failed" /\ err[p] = "BAD_REQUEST"
                   /\ log[p].reads = 0 /\ NoEffect(p) )
         /\ req[p].fundingSource.type = "card"
              => \A rn \in RoutingNumbers :
                   FundCheck([req[p] EXCEPT !.fundingSource.routingNumber = rn]).err
                     = err[p]

\* a card request with a malformed routing number has been funded
C9_Witness ==
  \E p \in Calls :
    /\ pc[p] = "done"
    /\ req[p].fundingSource.type = "card"
    /\ req[p].fundingSource.routingNumber = Given(Routing9Letter)
    /\ result[p].transaction.id = log[p].inserted

\* the input passes the schema and the card check
PassesInputChecks(input) ==
  /\ input.amount > 0
  /\ input.fundingSource.type = "bank" => NineDigits(input.fundingSource.routingNumber)
  /\ input.fundingSource.type = "card"
       => isValidCardNumber(input.fundingSource.accountNumber)

\* the account does not exist or belongs to another user
NotOwned(input) ==
  \/ input.accountId \notin DOMAIN accounts
  \/ accounts[input.accountId].userId # input.userId

\* C10: a request on an account that does not exist or is owned by another
\* user fails and writes nothing, with NOT_FOUND when its input passes the
\* input checks that precede the lookup; every journal row was inserted by a
\* request of the owner of the row's account, and every balance update was
\* made by a request of the owner of the updated account.
C10_NotFound ==
  \A p \in Calls :
    /\ (pc[p] # "idle" /\ NotOwned(req[p]))
         => /\ pc[p] = "failed" /\ NoEffect(p)
            /\ PassesInputChecks(req[p]) => err[p] = "NOT_FOUND"
    /\ log[p].inserted # 0
         => /\ transactions[log[p].inserted].accountId = req[p].accountId
            /\ accounts[req[p].accountId].userId = req[p].userId
    /\ log[p].updated => accounts[req[p].accountId].userId = req[p].userId

\* a valid request on another user's account has been rejected after an
\* earlier request was funded
C10_Witness ==
  \E p, q \in Calls :
    /\ pc[p] = "failed" /\ err[p] = "NOT_FOUND"
    /\ req[p].accountId = 2 /\ req[p].userId = 1
    /\ req[p].fundingSource.type = "bank"
    /\ pc[q] = "done"

\* the request is made by the owner of an account that is not active
OwnedNotActive(input) ==
  /\ ~NotOwned(input)
  /\ accounts[input.accountId].status # "active"

\* the codes the handler uses for InvalidInput (schema and card check) and
\* for NotFound
InputErrorCodes == {"BAD_REQUEST"}
NotFoundCodes == {"NOT_FOUND"}

\* C11: a request of the owner on an account that is not active, with an
\* input that passes the input checks, fails with an error that is neither
\* the InvalidInput code nor the NotFound code, inserts no journal row and
\* leaves the balance as it was.
C11_InvalidState ==
  \A p \in Calls :
    (pc[p] # "idle" /\ OwnedNotActive(req[p]) /\ PassesInputChecks(req[p]))
      => /\ pc[p] = "failed"
         /\ NoEffect(p)
         /\ accounts[req[p].accountId].balance = 0
         /\ err[p] \notin InputErrorCodes \cup NotFoundCodes

\* the journal row a completed request has appended is the deposit it asked for
AppendedRow(p) ==
  /\ log[p].inserted \in 1 .. Len(transactions)
  /\ transactions[log[p].inserted].accountId = req[p].accountId
  /\ transactions[log[p].inserted].type = "deposit"
  /\ transactions[log[p].inserted].amount = req[p].amount
  /\ transactions[log[p].inserted].status = "completed"

\* what a completed request has done: one row, and the balance raised by amount
C12_Effect ==
  /\ \A p \in Calls :
       pc[p] = "done"
         => /\ AppendedRow(p)
            /\ log[p].updated
            /\ log[p].after = log[p].before + req[p].amount
  /\ \A p, q \in Calls : (p # q /\ log[p].inserted # 0) => log[p].inserted # log[q].inserted
  /\ Len(transactions) = Cardinality({p \in Calls : log[p].inserted # 0})
  /\ \A a \in DOMAIN accounts :
       (\A p \in Calls : req[p].accountId = a => pc[p] \in {"done", "failed"})
         => accounts[a].balance = CompletedSum(a, Len(transactions))

\* what a step leaves alone: owner, type and status of every account, the
\* balance of every account but the one a request updates (which grows by
\* the amount of that request), the rows already in the journal, the sessions
C12_Frame ==
  /\ DOMAIN accounts' = DOMAIN accounts
  /\ \A a \in DOMAIN accounts :
       /\ accounts'[a].id = accounts[a].id
       /\ accounts'[a].userId = accounts[a].userId
       /\ accounts'[a].accountType = accounts[a].accountType
       /\ accounts'[a].status = accounts[a].status
       /\ accounts'[a].balance # accounts[a].balance
            => \E p \in Calls :
                 /\ pc[p] = "update" /\ pc'[p] = "refetch"
                 /\ req[p].accountId = a
                 /\ accounts'[a].balance = accounts[a].balance + req[p].amount
  /\ Len(transactions') \in {Len(transactions), Len(transactions) + 1}
  /\ SubSeq(transactions', 1, Len(transactions)) = transactions
  /\ sessions' = sessions

Received(r) == collected[r] \o page[r]

\* C13: a getTransactions call for an account that does not exist or is
\* owned by another user fails and returns nothing, with NOT_FOUND when its
\* limit and offset pass the schema check that precedes the lookup; every
\* item a call returns is a journal row of the requested account, and that
\* account is owned by the caller.
C13_ReadNotFound ==
  \A r \in Readers :
    /\ (rpc[r] # "idle" /\ NotOwned(rreq[r]))
         => /\ rpc[r] = "failed" /\ Received(r) = <<>>
            /\ ReadSchemaOk(rreq[r]) => rerr[r] = "NOT_FOUND"
    /\ \A k \in 1 .. Len(Received(r)) :
         /\ Received(r)[k].accountId = rreq[r].accountId
         /\ transactions[Received(r)[k].id].accountId = rreq[r].accountId
         /\ accounts[rreq[r].accountId].userId = rreq[r].userId

\* user 1 has asked for the history of account 2, which holds a row
C13_Witness ==
  \E r \in Readers :
    /\ rpc[r] = "failed" /\ rerr[r] = "NOT_FOUND"
    /\ rreq[r].accountId = 2 /\ rreq[r].userId = 1
    /\ RowsOf(2) # {}

\* limit is omitted or a whole number in [1, 100], offset is omitted or a
\* whole number >= 0
PageArgsAllowed(input) ==
  /\ input.limit.present
       => (IsWhole(input.limit) /\ input.limit.value \in 1 .. 100)
  /\ input.offset.present
       => (IsWhole(input.offset) /\ input.offset.value >= 0)

Min(a, b) == IF a < b THEN a ELSE b
Max(a, b) == IF a > b THEN a ELSE b

\* C14: getTransactions rejects with BAD_REQUEST, before any storage
\* operation, exactly the calls whose limit is not a whole number in
\* [1, 100] or whose offset is not a whole number >= 0; a call that returns
\* gives min(limit, max(0, M - offset)) items of the M rows of the account,
\* with limit 50 and offset 0 when omitted.
C14_LimitOffset ==
  \A r \in Readers :
    /\ rpc[r] # "idle"
         => (PageArgsAllowed(rreq[r]) <=> rerr[r] # "BAD_REQUEST")
    /\ (rpc[r] # "idle" /\ ~PageArgsAllowed(rreq[r]))
         => (rpc[r] = "failed" /\ rreads[r] = 0)
    /\ (rpc[r] = "done" /\ stamp[r].getTransactions = writes)
         => Len(page[r]) =
              Min(IF rreq[r].limit.present THEN rreq[r].limit.value ELSE 50,
                  Max(0, Cardinality(RowsOf(rreq[r].accountId))
                           - (IF rreq[r].offset.present THEN rreq[r].offset.value
                              ELSE 0)))

\* createdAt descending, and id descending among equal createdAt
StrictlyDescending(items) ==
  \A i, j \in 1 .. Len(items) :
    i < j => \/ items[i].createdAt > items[j].createdAt
             \/ /\ items[i].createdAt = items[j].createdAt
                /\ items[i].id > items[j].id

\* C15: a returned page is ordered by createdAt descending and, among equal
\* createdAt, by id descending; while no write has happened since the call,
\* a second call with the same arguments can return no other sequence.
C15_StableOrder ==
  \A r \in Readers :
    rpc[r] = "done"
      => /\ StrictlyDescending(page[r])
         /\ stamp[r].getTransactions = writes
              => \A o \in DescOrders(rreq[r].accountId) :
                   PageOf(o, LimitOf(rreq[r]), OffsetOf(rreq[r])) = page[r]

\* the client started at offset 0, has just received a page shorter than
\* limit, and no write happened since its first page
PagingComplete(r) ==
  /\ rpc[r] = "done"
  /\ WholeInput(rreq[r])
  /\ OffsetOf(rreq[r]) = Len(collected[r])
  /\ Len(page[r]) < LimitOf(rreq[r])
  /\ pstart[r] = writes

\* C16: the pages of a paging run from offset 0 in steps of limit, up to
\* the first short page, with no write in between, are together the rows of
\* the account, each exactly once, createdAt never increasing.
C16_PaginationComplete ==
  \A r \in Readers :
    PagingComplete(r)
      => /\ Len(Received(r)) = Cardinality(RowsOf(rreq[r].accountId))
         /\ {Received(r)[k].id : k \in 1 .. Len(Received(r))} = RowsOf(rreq[r].accountId)
         /\ \A i, j \in 1 .. Len(Received(r)) :
              /\ i # j => Received(r)[i].id # Received(r)[j].id
              /\ i < j => Received(r)[i].createdAt >= Received(r)[j].createdAt

\* C17: a getTransactions call that returns has made two storage round
\* trips, the ownership lookup and the page query, whatever the number of
\* rows of its page; a call that fails has made at most two.
C17_RoundTrips ==
  \A r \in Readers :
    /\ rpc[r] = "query" => rreads[r] = 1
    /\ rpc[r] = "done" => rreads[r] = 2
    /\ rpc[r] = "failed" => rreads[r] <= 2

\* a call has returned a page of two rows
C17_Witness ==
  \E r \in Readers :
    /\ rpc[r] = "done" /\ Len(page[r]) >= 2
    /\ rreads[r] = 2

\* the older handler: the row with the accountType of a separate lookup of
\* its account
EnrichedItem(i) ==
  LET accountDetails == FindAnyAccount(transactions[i].accountId, 0)
  IN  [id |-> transactions[i].id, accountId |-> transactions[i].accountId,
       type |-> transactions[i].type, amount |-> transactions[i].amount,
       description |-> transactions[i].description, status |-> transactions[i].status,
       createdAt |-> transactions[i].createdAt,
       processedAt |-> transactions[i].processedAt,
       accountType |-> accountDetails.accountType]

\* C18: every returned item has the eight fields of its journal row
\* unchanged and the accountType of the row's account, checking or savings;
\* it is the item the per-row lookup of the account gives.
C18_Enrichment ==
  \A r \in Readers :
    \A k \in 1 .. Len(Received(r)) :
      LET item == Received(r)[k]
          row == transactions[item.id]
      IN  /\ item.id = row.id /\ item.accountId = row.accountId
          /\ item.type = row.type /\ item.amount = row.amount
          /\ item.description = row.description /\ item.status = row.status
          /\ item.createdAt = row.createdAt /\ item.processedAt = row.processedAt
          /\ item.accountType = accounts[row.accountId].accountType
          /\ item.accountType \in {"checking", "savings"}
          /\ item = EnrichedItem(item.id)

\* a call has returned the second journal row, a row of account 1
C18_Witness ==
  \E r \in Readers :
    /\ rpc[r] = "done" /\ Len(page[r]) >= 1
    /\ page[r][1].id = 2 /\ page[r][1].accountType = "checking"

FiveMinutes == 300000
OneSecond == 1000

\* C19: the check reports a session valid exactly when a session row was
\* found and expiresAt - now is strictly greater than five minutes: with
\* exactly five minutes left, with less, or already expired it is invalid,
\* with five minutes and one second left it is valid.
C19_SessionValidity ==
  status.userId # 0
    => /\ status.isValid
            <=> (status.found /\ status.expiresAt - status.at > FiveMinutes)
       /\ ~status.found => ~status.isValid
       /\ (status.found /\ status.expiresAt - status.at = FiveMinutes)
            => ~status.isValid
       /\ (status.found /\ status.expiresAt - status.at < FiveMinutes)
            => ~status.isValid
       /\ (status.found /\ status.expiresAt <= status.at) => ~status.isValid
       /\ (status.found /\ status.expiresAt - status.at = FiveMinutes + OneSecond)
            => status.isValid

\* a session with exactly five minutes left has been checked
C19_Witness ==
  /\ status.found
  /\ status.expiresAt - status.at = FiveMinutes
  /\ ~status.isValid

\* no other call for the same user has started
AloneOnUser(a) ==
  \A b \in AuthCalls : b # a => areq[b].userId # areq[a].userId

\* C20: the sessions table holds at most one row per user, whatever signup,
\* login and logout calls have run and however their storage operations
\* interleaved; the user of a completed login or signup that no other call
\* has followed holds exactly the session that call created.
C20_OneSessionPerUser ==
  /\ \A u \in People : Cardinality(SessionsOf(u)) <= 1
  /\ \A a \in AuthCalls :
       (apc[a] = "done" /\ areq[a].op \in {"login", "signup"} /\ AloneOnUser(a))
         => SessionsOf(areq[a].userId) = {made[a]}

\* the request has a valid input and is made by the owner of an active account
Fundable(input) ==
  /\ PassesInputChecks(input)
  /\ ~NotOwned(input)
  /\ accounts[input.accountId].status = "active"

\* C21: a request with valid input on an active account of the caller is
\* never failed and, once started, eventually returns, whatever other
\* requests are in flight on the same or on another account.
C21_Completes ==
  /\ [](\A p \in Calls : (pc[p] # "idle" /\ Fundable(req[p])) => pc[p] # "failed")
  /\ \A p \in Calls : (InFlight(p) ~> pc[p] = "done")

\* two requests on different accounts have overlapped and both returned
C21_Witness ==
  \E p, q \in Calls :
    /\ pc[p] = "done" /\ pc[q] = "done"
    /\ req[p].accountId # req[q].accountId
    /\ log[p].insertedAt < log[q].updatedAt
    /\ log[q].insertedAt < log[p].updatedAt

RECURSIVE LuhnSum(_, _)
\* the Luhn sum of the last k digits of s: the digits are counted from the
\* right, and every second one is doubled, less 9 when the double exceeds 9
LuhnSum(s, k) ==
  IF k = 0 THEN 0
  ELSE LET d == s[Len(s) - k + 1]
       IN  LuhnSum(s, k - 1)
             + (IF k % 2 = 1 THEN d ELSE IF 2 * d > 9 THEN 2 * d - 9 ELSE 2 * d)

\* s without its spaces and dashes
Stripped(s) ==
  LET keep == {i \in 1 .. Len(s) : s[i] \notin {SPACE, DASH}}
      nth(k) == CHOOSE i \in keep : Cardinality({j \in keep : j < i}) = k - 1
  IN  [k \in 1 .. Cardinality(keep) |-> s[nth(k)]]

\* 13 to 19 decimal digits with a Luhn sum divisible by 10
LuhnValid(s) ==
  /\ Len(s) \in 13 .. 19
  /\ \A i \in 1 .. Len(s) : s[i] \in 0 .. 9
  /\ LuhnSum(s, Len(s)) % 10 = 0

C23_SameSnapshot ==
  [][\A p \in Calls :
       (/\ InFlight(p) /\ pc'[p] # pc[p]
        /\ \/ Len(transactions') > Len(transactions)
           \/ accounts'[req[p].accountId].balance > accounts[req[p].accountId].balance)
         => /\ accounts[req[p].accountId].status = "active"
            /\ accounts[req[p].accountId].userId = req[p].userId]_vars

\* C24: after any createAccount calls, interleaved ones of the same user and
\* type included, there is at most one account per (owner, type) pair; a call
\* for a pair that has an account fails with CONFLICT and inserts nothing,
\* and a created account has balance 0, status active and no transactions.
C24_OnePerPair ==
  /\ \A a, b \in DOMAIN accounts :
       (accounts[a].userId = accounts[b].userId
        /\ accounts[a].accountType = accounts[b].accountType) => a = b
  /\ \A c \in Creators :
       /\ cerr[c] = "CONFLICT" => cins[c] = 0
       /\ cins[c] # 0 =>
            /\ accounts[cins[c]].balance = 0
            /\ accounts[cins[c]].status = "active"
            /\ RowsOf(cins[c]) = {}

ReaderStep == rpc' # rpc \/ gpc' # gpc

\* C26: the journal is append-only: over every step of fundAccount,
\* getTransactions, getAccounts and createAccount every existing row stays in
\* its place with every field as it was, so the rows of an account only grow;
\* a step of getTransactions or getAccounts changes no stored state.
C26_AppendOnly ==
  [][/\ Len(transactions') >= Len(transactions)
     /\ \A i \in 1 .. Len(transactions) : transactions'[i] = transactions[i]
     /\ ReaderStep => UNCHANGED <<accounts, transactions, sessions, registered>>]_vars

\* two deposits are in the journal, an account was created, and both read
\* operations have run, the page read holding a row
C26_Witness ==
  /\ Len(transactions) >= 2
  /\ \E c \in Creators : cins[c] # 0
  /\ \E r \in Readers : rpc[r] = "done" /\ gpc[r] = "done" /\ Len(page[r]) >= 1

\* no login or signup of the user of call a can insert a session: every
\* other call for that user is a logout or has failed
NoLoginAlongside(a) ==
  \A b \in AuthCalls :
    (b # a /\ areq[b].userId = areq[a].userId)
      => (areq[b].op = "logout" \/ apc[b] = "failed")

\* C27: a completed logout whose token decodes to user u, with no login of u
\* alongside, leaves no session row of u and no row holding a token issued
\* to u; the delete of a logout whose token cannot be decoded removes the
\* rows with that token value and no other row; a logout never fails, with
\* or without a token.
C27_LogoutRevokesAll ==
  /\ [](\A a \in AuthCalls :
         areq[a].op = "logout" =>
           /\ apc[a] # "failed" /\ aerr[a] = ""
           /\ (apc[a] = "done" /\ Decodable(areq[a].token) /\ NoLoginAlongside(a))
                => /\ SessionsOf(areq[a].userId) = {}
                   /\ \A x \in sessions : x.token[1] # areq[a].userId)
  /\ [][\A a \in AuthCalls :
         (areq[a].op = "logout" /\ apc[a] = "revoke" /\ apc'[a] = "done")
           => IF Decodable(areq[a].token)
              THEN SessionsOf(areq[a].token[1])' = {}
              ELSE sessions' = {x \in sessions : x.token # areq[a].token}]_vars

\* a user who held two sessions has logged out with the token of one of them
C27_Witness ==
  \E a \in AuthCalls :
    /\ areq[a].op = "logout" /\ apc[a] = "done"
    /\ areq[a].token \in {x.token : x \in TwoSessions}
    /\ Cardinality({x \in TwoSessions : x.userId = areq[a].userId}) = 2
    /\ NoLoginAlongside(a)
    /\ SessionsOf(areq[a].userId) = {}

C29_BalanceMonotone ==
  [][\A a \in DOMAIN accounts :
       accounts'[a].balance >= accounts[a].balance /\ accounts'[a].balance >= 0]_vars

\* C30: session validity is monotone in time: for a session row that a step
\* leaves as it is, when the check expiresAt - now > 5 minutes is false
\* before the step it is false after it (so when it is true after the step it
\* was true before it); and a check-status that follows an earlier one of the
\* same user with the same expiresAt, at the same or a later time, does not
\* report valid after invalid.
C30_ValidityMonotone ==
  [][/\ \A x \in sessions \cap sessions' :
          (now' >= now /\ ~isValid(x.expiresAt, now)) => ~isValid(x.expiresAt, now')
     /\ ( /\ status.found /\ status'.found
          /\ status'.userId = status.userId
          /\ status'.expiresAt = status.expiresAt
          /\ status'.at >= status.at
          /\ ~status.isValid ) => ~status'.isValid]_vars

\* a session that had more than five minutes left earlier in the run was
\* checked later, unchanged, and found invalid
C30_Witness ==
  /\ status.found /\ ~status.isValid
  /\ status.at > 0
  /\ status.expiresAt - (status.at - 299000) > FiveMinutes
  /\ \E x \in sessions : x.userId = status.userId /\ x.expiresAt = status.expiresAt

====
